---- MODULE Spec2Model ----
(***************************************************************************)
(* The paste lifecycle manager of pasties (src/model.rs) over its storage  *)
(* (src/database.rs), with the request layer's update form                 *)
(* (src/routing/api.rs).                                                   *)
(*                                                                         *)
(* Strings are sequences of one-character strings; a paste's content is    *)
(* kept as (byte, repetitions) because only its length and identity are    *)
(* read.  Every `.await` on a database call is one atomic step of the      *)
(* calling task; the synchronous code between two awaits belongs to the    *)
(* step of the await before it, except that each read of the wall clock is *)
(* its own point in time.                                                  *)
(***************************************************************************)
EXTENDS Integers, Sequences, FiniteSets, TLC

\* ---------------------------------------------------------------- bounds
NumProcs == 2
MaxCalls == 3
MaxRows == 2
MaxTime == 1
MaxRand == 1

\* ------------------------------------------------------ program constants
UrlMaxLen == 250
ContentMaxLen == 200000
TokenLen == 10
RandHexLen == 8
DigestLen == 64
PasswordMaxLen == 250

Procs == 1..NumProcs

\* ---------------------------------------------------------------- strings
Digits == {"0", "1", "2", "3", "4", "5", "6", "7", "8", "9"}
LowerCase == {"a", "b", "c", "d", "e", "f", "g", "h", "i", "j", "k", "l", "m",
              "n", "o", "p", "q", "r", "s", "t", "u", "v", "w", "x", "y", "z"}
UpperCase == {"A", "B", "C", "D", "E", "F", "G", "H", "I", "J", "K", "L", "M",
              "N", "O", "P", "Q", "R", "S", "T", "U", "V", "W", "X", "Y", "Z"}

HexLower == <<"0", "1", "2", "3", "4", "5", "6", "7",
              "8", "9", "a", "b", "c", "d", "e", "f">>
HexUpper == <<"0", "1", "2", "3", "4", "5", "6", "7",
              "8", "9", "A", "B", "C", "D", "E", "F">>

\* The bytes the model's strings are made of, in a fixed order (their codes).
Alphabet == HexLower \o <<"A", "B", "C", "D", "E", "F",
                          "p", "q", "u", "v", "-", "_", " ">>

ByteCode(c) == CHOOSE i \in 1..Len(Alphabet) : Alphabet[i] = c

Take(s, n) == SubSeq(s, 1, IF Len(s) < n THEN Len(s) ELSE n)

Repeat(c, n) == [i \in 1..n |-> c]

\* b.is_ascii_alphanumeric() || b == b'-' || b == b'_', for every byte
is_url_safe(s) ==
    \A i \in 1..Len(s) : s[i] \in Digits \cup LowerCase \cup UpperCase \cup {"-", "_"}

\* ----------------------------------------------------------------- utility
\* the sum of position times byte code over s[lo..hi], in 16 bits, taken by
\* halves so that long inputs need little depth
RECURSIVE Weight(_, _, _)
Weight(s, lo, hi) ==
    IF lo > hi THEN 0
    ELSE IF lo = hi THEN (lo * ByteCode(s[lo])) % 65536
    ELSE LET mid == (lo + hi) \div 2
         IN  (Weight(s, lo, mid) + Weight(s, mid + 1, hi)) % 65536

\* SHA-256 printed with {:x}: a function of the input's bytes giving DigestLen
\* lower-case hexadecimal digits.  The digest here is a 16-bit positional
\* checksum written out in hexadecimal and repeated; the model's inputs are
\* chosen so that it tells them apart, as SHA-256 does.
hash_string(input) ==
    LET w == Weight(input, 1, Len(input))
        nib(i) == CASE i % 4 = 1 -> w % 16
                    [] i % 4 = 2 -> (w \div 16) % 16
                    [] i % 4 = 3 -> (w \div 256) % 16
                    [] OTHER     -> (w \div 4096) % 16
    IN  [i \in 1..DigestLen |-> HexLower[nib(i) + 1]]

\* format!("{:X}", n): upper-case hexadecimal without leading zeros
RECURSIVE FormatUpperHex(_)
FormatUpperHex(n) ==
    IF n < 16 THEN <<HexUpper[n + 1]>>
    ELSE FormatUpperHex(n \div 16) \o <<HexUpper[(n % 16) + 1]>>

\* random_string for the drawn u32 value r
random_string(r) ==
    LET string == FormatUpperHex(r)
        string_pad_len == RandHexLen - Len(string)
    IN  hash_string(IF string_pad_len # 0
                    THEN Repeat("0", string_pad_len) \o string
                    ELSE string)

\* the values of rand::thread_rng().gen::<u32>() the model draws
RandValues == 0..MaxRand

\* utility::random_string().chars().take(10).collect()
RandomToken(r) == Take(random_string(r), TokenLen)

\* --------------------------------------------------------------- storage
\* A row of the pastes table.
Paste(id, url, password_hash, content, date_published, date_edited) ==
    [id |-> id, url |-> url, password_hash |-> password_hash, content |-> content,
     date_published |-> date_published, date_edited |-> date_edited]

Matching(rows, url) == {i \in 1..Len(rows) : rows[i].url = url}

FirstMatch(rows, url) ==
    CHOOSE i \in Matching(rows, url) : \A j \in Matching(rows, url) : i <= j

\* database::retrieve_paste(..).is_ok(): some row has the url
retrieve_is_ok(rows, url) == Matching(rows, url) # {}

\* the row database::retrieve_paste returns: the first one with the url
retrieve_paste(rows, url) == rows[FirstMatch(rows, url)]

\* the rowid the table gives a new row: id is "integer primary key" and is
\* not among the inserted columns, so paste.id (pseudoid()) is not stored
next_rowid(rows) ==
    IF rows = <<>> THEN 1
    ELSE 1 + (CHOOSE m \in {rows[i].id : i \in 1..Len(rows)} :
                 \A i \in 1..Len(rows) : rows[i].id <= m)

\* database::insert_paste: the table has no uniqueness constraint on url
insert_paste(rows, paste) == Append(rows, [paste EXCEPT !.id = next_rowid(rows)])

\* database::delete_paste: the first row with the url is removed, none if absent
delete_paste(rows, url) ==
    IF Matching(rows, url) = {} THEN rows
    ELSE LET k == FirstMatch(rows, url)
         IN  SubSeq(rows, 1, k - 1) \o SubSeq(rows, k + 1, Len(rows))

\* database::update_paste: the mutable fields of the row matched by url are
\* replaced (the url among them); zero rows affected is not an error
update_paste_row(rows, url, updated) ==
    IF Matching(rows, url) = {} THEN rows
    ELSE LET k == FirstMatch(rows, url)
         IN  [rows EXCEPT ![k] = [@ EXCEPT !.url = updated.url,
                                           !.password_hash = updated.password_hash,
                                           !.content = updated.content,
                                           !.date_edited = updated.date_edited]]

\* ----------------------------------------------------------------- inputs
\* a content of n copies of one byte; content.len() is n
Content(byte, n) == [byte |-> byte, n |-> n]

EmptyString == <<>>
UrlA == <<"u">>
PasswordP == <<"p">>
ContentX == Content("x", 1)
ContentY == Content("y", 1)
EmptyContent == Content("x", 0)

\* every token the generator can produce
Tokens == {RandomToken(r) : r \in RandValues}

\* what callers submit: to create (urls, passwords, contents), as credentials
\* (presented urls and passwords), and to update (contents, new urls, new
\* passwords); faults says whether a storage call may fault (TRUE) or not
Inputs(create_urls, create_passwords, create_contents, presented_urls, presented_passwords, update_contents, new_urls, new_passwords, faults) ==
    [create_urls |-> create_urls, create_passwords |-> create_passwords,
     create_contents |-> create_contents, presented_urls |-> presented_urls,
     presented_passwords |-> presented_passwords,
     update_contents |-> update_contents, new_urls |-> new_urls,
     new_passwords |-> new_passwords, faults |-> faults]

\* a token callers know: they present it as a url and as a password
KnownToken == RandomToken(0)

\* one caller at a time: valid and invalid contents, renaming updates
SeqInputs ==
    Inputs({EmptyString, UrlA}, {EmptyString, PasswordP}, {ContentX, EmptyContent},
           {UrlA, KnownToken}, {PasswordP, KnownToken},
           {ContentY, EmptyContent}, {EmptyString, UrlA}, {EmptyString, PasswordP},
           {FALSE})

\* concurrent callers: generated passwords, valid contents, updates that may
\* change the password
RaceInputs ==
    Inputs({EmptyString, UrlA}, {EmptyString}, {ContentX},
           {UrlA, KnownToken}, {PasswordP, KnownToken},
           {ContentY}, {EmptyString}, {EmptyString, PasswordP}, {FALSE})

\* a url with a byte outside [A-Za-z0-9_-], urls of the greatest allowed
\* length and one byte longer, a password one byte too long, contents of the
\* greatest allowed length and one byte longer
BadUrl == <<"a", " ", "b">>
MaxUrl == Repeat("u", UrlMaxLen)
LongUrl == Repeat("u", UrlMaxLen + 1)
LongPassword == Repeat("p", PasswordMaxLen + 1)
MaxContent == Content("x", ContentMaxLen)
LongContent == Content("x", ContentMaxLen + 1)
LongContentY == Content("y", ContentMaxLen + 1)

\* one caller submitting values at and beyond the limits
EdgeInputs ==
    Inputs({EmptyString, UrlA, MaxUrl, BadUrl, LongUrl}, {PasswordP, LongPassword},
           {EmptyContent, ContentX, MaxContent, LongContent},
           {UrlA, BadUrl}, {PasswordP},
           {ContentY, EmptyContent, LongContentY}, {EmptyString, BadUrl},
           {EmptyString, LongPassword},
           {FALSE})

\* one caller whose storage calls may fault
FaultInputs ==
    Inputs({EmptyString, UrlA}, {PasswordP}, {ContentX},
           {UrlA, KnownToken}, {PasswordP}, {ContentY}, {EmptyString}, {EmptyString},
           {FALSE, TRUE})

\* one caller creating pastes under generated urls and using what it got
LiveInputs ==
    Inputs({EmptyString}, {EmptyString}, {ContentX},
           {KnownToken}, {KnownToken}, {ContentY}, {EmptyString}, {EmptyString},
           {FALSE})

\* ------------------------------------------------------------------ state
VARIABLES
    store,   \* the rows of the pastes table, in insertion order
    pc,      \* where each caller's task stands
    loc,     \* each running task's arguments and locals
    ret,     \* what the last step returned to its caller, if it returned
    calls    \* how many operations have been started

vars == <<store, pc, loc, ret, calls>>

NoLoc == [op |-> "none", url |-> EmptyString, password |-> EmptyString,
          content |-> EmptyContent, new_url |-> EmptyString,
          new_password |-> EmptyString,
          date_published |-> 0, date_edited |-> 0,
          generated |-> FALSE, faulted |-> FALSE]

NoRet == [proc |-> 0, op |-> "none", status |-> "none", url |-> EmptyString,
          password |-> EmptyString, content |-> EmptyContent,
          date_published |-> 0, date_edited |-> 0, faulted |-> FALSE]

Result(p, op, status) == [NoRet EXCEPT !.proc = p, !.op = op, !.status = status]

\* the result r of an operation one of whose storage calls faulted
Faulted(r) == [r EXCEPT !.faulted = TRUE]

Init ==
    /\ store = <<>>
    /\ pc = [p \in Procs |-> "idle"]
    /\ loc = [p \in Procs |-> NoLoc]
    /\ ret = NoRet
    /\ calls = 0

\* a caller starts an operation when its previous one has returned
CanStart(p) == pc[p] = "idle" /\ calls < MaxCalls

\* the operation of p returns r
Finish(p, r) ==
    /\ pc' = [pc EXCEPT ![p] = "idle"]
    /\ loc' = [loc EXCEPT ![p] = NoLoc]
    /\ ret' = [r EXCEPT !.faulted = @ \/ loc[p].faulted]

\* the task of p goes on to its next await with locals l
Goto(p, label, l) ==
    /\ pc' = [pc EXCEPT ![p] = label]
    /\ loc' = [loc EXCEPT ![p] = l]
    /\ ret' = NoRet

\* ------------------------------------------------------------ the clock
\* What unix_timestamp() can return: SystemTime::now() is the wall clock,
\* which advances and can be set back between any two readings, so a reading
\* is any number of seconds since the epoch.
ClockReadings == 0..MaxTime

\* ---------------------------------------------------------- create_paste
\* database::retrieve_paste(..) is Ok: the read did not fault and found a row
lookup_is_ok(rows, url, fault) == ~fault /\ retrieve_is_ok(rows, url)

\* the locals of p once a storage call of its operation has faulted or not
Noting(l, fault) == [l EXCEPT !.faulted = @ \/ fault]

CreateStart(p, url, content, password) ==
    /\ CanStart(p)
    /\ Len(store) + Cardinality({q \in Procs : loc[q].op = "create"}) < MaxRows
    /\ calls' = calls + 1
    /\ Goto(p, IF url = EmptyString THEN "create_gen" ELSE "create_check",
            [NoLoc EXCEPT !.op = "create", !.url = url, !.content = content,
                          !.password = password,
                          !.generated = (url = EmptyString)])
    /\ UNCHANGED store

\* one turn of the default-url loop: a candidate is drawn and looked up; the
\* loop goes on only while the lookup is Ok
CreateGenDrawing(p, r, fault) ==
    /\ pc[p] = "create_gen"
    /\ LET random_id == RandomToken(r)
       IN  IF lookup_is_ok(store, random_id, fault)
           THEN Goto(p, "create_gen", loc[p])
           ELSE Goto(p, "create_check",
                     Noting([loc[p] EXCEPT !.url = random_id], fault))
    /\ UNCHANGED <<store, calls>>

\* CreateGen taking the first candidate without looking it up
CreateGenUnchecked(p, fault) ==
    /\ pc[p] = "create_gen"
    /\ \E r \in RandValues :
         Goto(p, "create_check", [loc[p] EXCEPT !.url = RandomToken(r)])
    /\ UNCHANGED <<store, calls>>

CreateGen(p, fault) == \E r \in RandValues : CreateGenDrawing(p, r, fault)

content_is_valid_exclusive(content) == ~(content.n >= ContentMaxLen \/ content.n = 0)

content_is_valid(content) == ~(content.n > ContentMaxLen \/ content.n = 0)

\* CreateCheck with the inputs validated before the existence check
CreateCheckValidatingFirst(p, fault) ==
    /\ pc[p] = "create_check"
    /\ IF Len(loc[p].url) > UrlMaxLen \/ ~is_url_safe(loc[p].url)
       THEN Finish(p, Result(p, "create", "InvalidUrl"))
       ELSE IF ~content_is_valid(loc[p].content)
       THEN Finish(p, Result(p, "create", "InvalidContent"))
       ELSE IF lookup_is_ok(store, loc[p].url, fault)
       THEN Finish(p, Result(p, "create", "AlreadyExists"))
       ELSE \E r \in RandValues, unix_timestamp \in ClockReadings :
              Goto(p, "create_stamp",
                   Noting([loc[p] EXCEPT !.password = IF loc[p].password = EmptyString
                                                      THEN RandomToken(r)
                                                      ELSE loc[p].password,
                                         !.date_published = unix_timestamp], fault))
    /\ UNCHANGED <<store, calls>>

\* the existence check, then defaults, validation, and the start of the row
CreateCheck(p, fault) ==
    /\ pc[p] = "create_check"
    /\ IF lookup_is_ok(store, loc[p].url, fault)
       THEN Finish(p, Result(p, "create", "AlreadyExists"))
       ELSE \E r \in RandValues, unix_timestamp \in ClockReadings :
              LET password == IF loc[p].password = EmptyString
                              THEN RandomToken(r) ELSE loc[p].password
              IN  IF Len(loc[p].url) > UrlMaxLen \/ ~is_url_safe(loc[p].url)
                  THEN Finish(p, Noting(Result(p, "create", "InvalidUrl"), fault))
                  ELSE IF ~content_is_valid(loc[p].content)
                  THEN Finish(p, Noting(Result(p, "create", "InvalidContent"), fault))
                  ELSE Goto(p, "create_stamp",
                            Noting([loc[p] EXCEPT !.password = password,
                                                  !.date_published = unix_timestamp],
                                   fault))
    /\ UNCHANGED <<store, calls>>

\* the second reading of the clock
CreateStamp(p) ==
    /\ pc[p] = "create_stamp"
    /\ \E unix_timestamp \in ClockReadings :
         Goto(p, "create_insert", [loc[p] EXCEPT !.date_edited = unix_timestamp])
    /\ UNCHANGED <<store, calls>>

CreateInsert(p, fault) ==
    /\ pc[p] = "create_insert"
    /\ IF fault
       THEN /\ store' = store
            /\ Finish(p, Faulted(Result(p, "create", "Other")))
       ELSE /\ store' = insert_paste(store,
                           Paste(0, loc[p].url, hash_string(loc[p].password),
                                 loc[p].content, loc[p].date_published,
                                 loc[p].date_edited))
            /\ Finish(p, [Result(p, "create", "Ok") EXCEPT !.url = loc[p].url,
                                                           !.password = loc[p].password])
    /\ UNCHANGED calls

\* ---------------------------------------------------------- update_paste
\* the form of the request layer: (url, password) are the credentials,
\* (new_url, new_password, content) the update
new_password_is_valid(new_password) == Len(new_password) <= PasswordMaxLen

updated_url(url, new_url) == IF new_url = EmptyString THEN url ELSE new_url

updated_password_hash(password, new_password) ==
    hash_string(IF new_password = EmptyString THEN password ELSE new_password)

UpdateStart(p, url, password, content, new_url, new_password) ==
    /\ CanStart(p)
    /\ calls' = calls + 1
    /\ Goto(p, "update_retrieve",
            [NoLoc EXCEPT !.op = "update", !.url = url, !.password = password,
                          !.content = content, !.new_url = new_url,
                          !.new_password = new_password])
    /\ UNCHANGED store

\* UpdateRetrieve with the content validated before the record is retrieved
UpdateRetrieveValidatingFirst(p, fault) ==
    /\ pc[p] = "update_retrieve"
    /\ IF ~content_is_valid(loc[p].content)
       THEN Finish(p, Result(p, "update", "InvalidContent"))
       ELSE IF ~lookup_is_ok(store, loc[p].url, fault)
       THEN Finish(p, Noting(Result(p, "update", "NotFound"), fault))
       ELSE IF hash_string(loc[p].password)
                 # retrieve_paste(store, loc[p].url).password_hash
       THEN Finish(p, Result(p, "update", "PasswordIncorrect"))
       ELSE IF ~new_password_is_valid(loc[p].new_password)
       THEN Finish(p, Result(p, "update", "InvalidPassword"))
       ELSE \E unix_timestamp \in ClockReadings :
            Goto(p, "update_write", [loc[p] EXCEPT !.date_edited = unix_timestamp])
    /\ UNCHANGED <<store, calls>>

\* UpdateRetrieve with the password compared after the input is validated
UpdateRetrieveAuthenticatingLast(p, fault) ==
    /\ pc[p] = "update_retrieve"
    /\ IF ~lookup_is_ok(store, loc[p].url, fault)
       THEN Finish(p, Noting(Result(p, "update", "NotFound"), fault))
       ELSE IF ~new_password_is_valid(loc[p].new_password)
       THEN Finish(p, Result(p, "update", "InvalidPassword"))
       ELSE IF ~content_is_valid(loc[p].content)
       THEN Finish(p, Result(p, "update", "InvalidContent"))
       ELSE IF hash_string(loc[p].password)
                 # retrieve_paste(store, loc[p].url).password_hash
       THEN Finish(p, Result(p, "update", "PasswordIncorrect"))
       ELSE \E unix_timestamp \in ClockReadings :
            Goto(p, "update_write", [loc[p] EXCEPT !.date_edited = unix_timestamp])
    /\ UNCHANGED <<store, calls>>

\* retrieve, authenticate, validate, read the clock
UpdateRetrieve(p, fault) ==
    /\ pc[p] = "update_retrieve"
    /\ IF ~lookup_is_ok(store, loc[p].url, fault)
       THEN Finish(p, Noting(Result(p, "update", "NotFound"), fault))
       ELSE IF hash_string(loc[p].password)
                 # retrieve_paste(store, loc[p].url).password_hash
       THEN Finish(p, Result(p, "update", "PasswordIncorrect"))
       ELSE IF ~new_password_is_valid(loc[p].new_password)
       THEN Finish(p, Result(p, "update", "InvalidPassword"))
       ELSE IF ~content_is_valid(loc[p].content)
       THEN Finish(p, Result(p, "update", "InvalidContent"))
       ELSE \E unix_timestamp \in ClockReadings :
            Goto(p, "update_write", [loc[p] EXCEPT !.date_edited = unix_timestamp])
    /\ UNCHANGED <<store, calls>>

\* the fields update_paste hands to the storage write
ExistingPaste(l) ==
    [url |-> updated_url(l.url, l.new_url),
     password_hash |-> updated_password_hash(l.password, l.new_password),
     content |-> l.content,
     date_edited |-> l.date_edited]

\* UpdateWrite storing the paste anew: date_published restarts at date_edited
UpdateWriteRestamping(p, fault) ==
    /\ pc[p] = "update_write"
    /\ IF fault
       THEN /\ store' = store
            /\ Finish(p, Faulted(Result(p, "update", "Other")))
       ELSE /\ store' = [i \in 1..Len(store) |->
                           LET row == update_paste_row(store, loc[p].url,
                                                       ExistingPaste(loc[p]))[i]
                           IN  IF row = store[i] THEN row
                               ELSE [row EXCEPT !.date_published = row.date_edited]]
            /\ Finish(p, [Result(p, "update", "Ok") EXCEPT !.url = loc[p].url])
    /\ UNCHANGED calls

\* UpdateWrite keeping the password hash found in storage at the write
UpdateWriteKeepingStoredHash(p, fault) ==
    /\ pc[p] = "update_write"
    /\ IF fault
       THEN /\ store' = store
            /\ Finish(p, Faulted(Result(p, "update", "Other")))
       ELSE /\ store' = update_paste_row(store, loc[p].url,
                           [ExistingPaste(loc[p]) EXCEPT !.password_hash =
                               IF retrieve_is_ok(store, loc[p].url)
                               THEN retrieve_paste(store, loc[p].url).password_hash
                               ELSE @])
            /\ Finish(p, [Result(p, "update", "Ok") EXCEPT !.url = loc[p].url])
    /\ UNCHANGED calls

\* UpdateWrite hashing the presented password whether or not a new one came
UpdateWriteHashingCredentials(p, fault) ==
    /\ pc[p] = "update_write"
    /\ IF fault
       THEN /\ store' = store
            /\ Finish(p, Faulted(Result(p, "update", "Other")))
       ELSE /\ store' = update_paste_row(store, loc[p].url,
                           [ExistingPaste(loc[p]) EXCEPT !.password_hash =
                               hash_string(loc[p].password)])
            /\ Finish(p, [Result(p, "update", "Ok") EXCEPT !.url = loc[p].url])
    /\ UNCHANGED calls

UpdateWrite(p, fault) ==
    /\ pc[p] = "update_write"
    /\ IF fault
       THEN /\ store' = store
            /\ Finish(p, Faulted(Result(p, "update", "Other")))
       ELSE /\ store' = update_paste_row(store, loc[p].url, ExistingPaste(loc[p]))
            /\ Finish(p, [Result(p, "update", "Ok") EXCEPT !.url = loc[p].url])
    /\ UNCHANGED calls

\* ---------------------------------------------------------- delete_paste
DeleteStart(p, url, password) ==
    /\ CanStart(p)
    /\ calls' = calls + 1
    /\ Goto(p, "delete_retrieve",
            [NoLoc EXCEPT !.op = "delete", !.url = url, !.password = password])
    /\ UNCHANGED store

\* DeleteRetrieve without the comparison of the password hashes
DeleteRetrieveUnauthenticated(p, fault) ==
    /\ pc[p] = "delete_retrieve"
    /\ IF ~lookup_is_ok(store, loc[p].url, fault)
       THEN Finish(p, Noting(Result(p, "delete", "NotFound"), fault))
       ELSE Goto(p, "delete_remove", loc[p])
    /\ UNCHANGED <<store, calls>>

\* retrieve and authenticate
DeleteRetrieve(p, fault) ==
    /\ pc[p] = "delete_retrieve"
    /\ IF ~lookup_is_ok(store, loc[p].url, fault)
       THEN Finish(p, Noting(Result(p, "delete", "NotFound"), fault))
       ELSE IF hash_string(loc[p].password)
                 # retrieve_paste(store, loc[p].url).password_hash
       THEN Finish(p, Result(p, "delete", "PasswordIncorrect"))
       ELSE Goto(p, "delete_remove", loc[p])
    /\ UNCHANGED <<store, calls>>

DeleteRemove(p, fault) ==
    /\ pc[p] = "delete_remove"
    /\ IF fault
       THEN /\ store' = store
            /\ Finish(p, Faulted(Result(p, "delete", "Other")))
       ELSE /\ store' = delete_paste(store, loc[p].url)
            /\ Finish(p, [Result(p, "delete", "Ok") EXCEPT !.url = loc[p].url])
    /\ UNCHANGED calls

\* ------------------------------------------------------ get_paste_by_url
PasteReturn(p, rows, paste_url) ==
    IF retrieve_is_ok(rows, paste_url)
    THEN LET found == retrieve_paste(rows, paste_url)
         IN  [Result(p, "get", "Ok") EXCEPT !.url = found.url,
                                            !.content = found.content,
                                            !.date_published = found.date_published,
                                            !.date_edited = found.date_edited]
    ELSE Result(p, "get", "NotFound")

GetStart(p, paste_url) ==
    /\ CanStart(p)
    /\ calls' = calls + 1
    /\ Goto(p, "get_retrieve", [NoLoc EXCEPT !.op = "get", !.url = paste_url])
    /\ UNCHANGED store

GetRetrieve(p, fault) ==
    /\ pc[p] = "get_retrieve"
    /\ Finish(p, IF fault THEN Faulted(Result(p, "get", "NotFound"))
                 ELSE PasteReturn(p, store, loc[p].url))
    /\ UNCHANGED <<store, calls>>

\* ------------------------------------------------------- specifications
Step(p, in) ==
    \/ \E url \in in.create_urls, content \in in.create_contents,
          password \in in.create_passwords :
         CreateStart(p, url, content, password)
    \/ \E fault \in in.faults : CreateGen(p, fault)
    \/ \E fault \in in.faults : CreateCheck(p, fault)
    \/ CreateStamp(p)
    \/ \E fault \in in.faults : CreateInsert(p, fault)
    \/ \E url \in in.presented_urls, password \in in.presented_passwords,
          content \in in.update_contents, new_url \in in.new_urls,
          new_password \in in.new_passwords :
         UpdateStart(p, url, password, content, new_url, new_password)
    \/ \E fault \in in.faults : UpdateRetrieve(p, fault)
    \/ \E fault \in in.faults : UpdateWrite(p, fault)
    \/ \E url \in in.presented_urls, password \in in.presented_passwords :
         DeleteStart(p, url, password)
    \/ \E fault \in in.faults : DeleteRetrieve(p, fault)
    \/ \E fault \in in.faults : DeleteRemove(p, fault)
    \/ \E url \in in.presented_urls : GetStart(p, url)
    \/ \E fault \in in.faults : GetRetrieve(p, fault)

\* callers' tasks interleave at every await
Next == \E p \in Procs : Step(p, RaceInputs)

Spec == Init /\ [][Next]_vars

\* one caller: no two operations overlap
SeqNext == Step(1, SeqInputs)

SeqSpec == Init /\ [][SeqNext]_vars

\* one caller, inputs at and beyond the limits
EdgeNext == Step(1, EdgeInputs)

EdgeSpec == Init /\ [][EdgeNext]_vars

\* one caller, storage calls that may fault
FaultNext == Step(1, FaultInputs)

FaultSpec == Init /\ [][FaultNext]_vars

\* one caller whose task is polled until it returns and whose generator is
\* fair: a draw that stays possible is made in the end
LiveNext == Step(1, LiveInputs)

LiveSpec ==
    /\ Init
    /\ [][LiveNext]_vars
    /\ \A r \in RandValues : WF_vars(CreateGenDrawing(1, r, FALSE))
    /\ WF_vars(CreateCheck(1, FALSE))
    /\ WF_vars(CreateStamp(1))
    /\ WF_vars(CreateInsert(1, FALSE))

\* ------------------------------------------------------------------ claims
UniqueUrls(rows) ==
    \A i \in 1..Len(rows), j \in 1..Len(rows) : i # j => rows[i].url # rows[j].url

\* C1: whatever the interleaving of concurrent create calls on one storage
\* handle, no two stored pastes ever have the same url.
C1_UrlsUniqueUnderConcurrentCreates == UniqueUrls(store)

C3_CreateThenRetrieve ==
    [][\A p \in Procs :
         (pc[p] = "create_insert" /\ pc'[p] = "idle" /\ ret'.status = "Ok")
         => LET view == PasteReturn(p, store', ret'.url)
            IN  /\ view.status = "Ok"
                /\ view.content = loc[p].content
                /\ view.date_published = view.date_edited]_vars


\* C4: the (url, password) a successful create returns authorizes its caller:
\* while no update or delete of that url has succeeded, an update or delete
\* presenting the pair fails neither with NotFound nor with PasswordIncorrect.
\* Stated where the create returns: the row retrieved by the returned url
\* carries the hash of the returned password.
C4_ReturnedPairAuthorizes ==
    (ret.op = "create" /\ ret.status = "Ok")
    => /\ retrieve_is_ok(store, ret.url)
       /\ retrieve_paste(store, ret.url).password_hash = hash_string(ret.password)

\* the step of p that leaves the await at label
Leaves(p, label) == pc[p] = label /\ pc'[p] # label

\* C5: a create whose url is present in storage returns AlreadyExists, and
\* the stored pastes are the same after the call as before it.
C5_CreateOfPresentUrl ==
    [][\A p \in Procs :
         /\ (pc[p] = "idle" /\ loc'[p].op = "create") => store' = store
         /\ (Leaves(p, "create_check") /\ retrieve_is_ok(store, loc[p].url))
            => /\ pc'[p] = "idle"
               /\ ret' = Result(p, "create", "AlreadyExists")
               /\ store' = store]_vars

C5_Witness ==
    /\ ret.op = "create"
    /\ ret.status = "AlreadyExists"
    /\ retrieve_is_ok(store, UrlA)

\* the password p presents is not the one of the paste stored under its url
PresentsWrongPassword(p) ==
    /\ retrieve_is_ok(store, loc[p].url)
    /\ hash_string(loc[p].password) # retrieve_paste(store, loc[p].url).password_hash

\* C6: an update or delete presenting a wrong password for an existing url
\* returns PasswordIncorrect and changes no field of any stored record; a retrieve
\* of the url afterwards succeeds with the view it had before.
C6_WrongPasswordChangesNothing ==
    [][\A p \in Procs :
         \A op \in {"update", "delete"} :
           (loc[p].op = op /\ Leaves(p, op \o "_retrieve") /\ PresentsWrongPassword(p))
           => /\ pc'[p] = "idle"
              /\ ret' = Result(p, op, "PasswordIncorrect")
              /\ store' = store
              /\ PasteReturn(p, store', loc[p].url).status = "Ok"
              /\ PasteReturn(p, store', loc[p].url) = PasteReturn(p, store, loc[p].url)]_vars

C6_Witness ==
    /\ ret.op = "delete"
    /\ ret.status = "PasswordIncorrect"
    /\ \E i \in 1..Len(store) : store[i].url = UrlA

\* C7: an update or delete of a url that is not in storage returns NotFound,
\* whatever the password and the content, and leaves storage unchanged.
C7_AbsentUrlIsNotFound ==
    [][\A p \in Procs :
         \A op \in {"update", "delete"} :
           (loc[p].op = op /\ Leaves(p, op \o "_retrieve")
              /\ ~retrieve_is_ok(store, loc[p].url))
           => /\ pc'[p] = "idle"
              /\ ret' = Result(p, op, "NotFound")
              /\ store' = store]_vars

C7_Witness ==
    /\ ret.op = "update"
    /\ ret.status = "NotFound"
    /\ store # <<>>

\* C8: in every execution, an update or delete whose storage mutation finds
\* no row with its url (zero rows affected) does not return success: it
\* returns NotFound.
C8_MutationOfAbsentRowIsNotFound ==
    [][\A p \in Procs :
         ((Leaves(p, "update_write") \/ Leaves(p, "delete_remove"))
            /\ ~retrieve_is_ok(store, loc[p].url))
         => ret'.status = "NotFound"]_vars

\* C9: every stored paste has date_published <= date_edited, after any
\* sequence of create and update calls and whatever the clock does.
C9_PublishedNotAfterEdited ==
    \A i \in 1..Len(store) : store[i].date_published <= store[i].date_edited

\* C10: after a successful create, when an update with valid credentials and
\* new valid content succeeds, a retrieve returns the new content, with
\* date_edited >= the date_published the paste was created with.
C10_UpdateThenRetrieve ==
    [][\A p \in Procs :
         (Leaves(p, "update_write") /\ ret'.status = "Ok"
            /\ loc[p].new_url = EmptyString /\ retrieve_is_ok(store, loc[p].url)
            /\ loc[p].content # retrieve_paste(store, loc[p].url).content)
         => LET original == retrieve_paste(store, loc[p].url)
                view == PasteReturn(p, store', loc[p].url)
            IN  /\ view.status = "Ok"
                /\ view.content = loc[p].content
                /\ view.content # original.content
                /\ view.date_edited >= original.date_published]_vars

\* C11: the id and date_published a paste got at creation stay the same in
\* every later state in which the paste exists: no step of an update
\* (successful or failed), of a retrieve, or of an operation on another url
\* changes them; a step that removes a row leaves the other rows as they were.
C11_IdAndPublicationDateFixed ==
    [][/\ Len(store') >= Len(store)
          => \A i \in 1..Len(store) :
               /\ store'[i].id = store[i].id
               /\ store'[i].date_published = store[i].date_published
       /\ Len(store') < Len(store)
          => \A j \in 1..Len(store') : \E i \in 1..Len(store) : store'[j] = store[i]]_vars

C11_Witness ==
    /\ ret.op = "update"
    /\ ret.status = "Ok"
    /\ retrieve_is_ok(store, ret.url)
    /\ retrieve_paste(store, ret.url).content = ContentY
    /\ retrieve_paste(store, ret.url).date_edited
         # retrieve_paste(store, ret.url).date_published

\* the url p submits is within the rules for urls
SubmitsValidUrl(p) ==
    /\ Len(loc[p].url) >= 1
    /\ Len(loc[p].url) <= 250
    /\ is_url_safe(loc[p].url)

\* C12: a create with an otherwise valid, unused url fails with InvalidContent
\* when the content has length 0 or more than 200,000 bytes, and succeeds at
\* the lengths 1 and 200,000; every stored paste has a content of 1..200,000
\* bytes.
C12_ContentLengthBounds ==
    [][\A p \in Procs :
         /\ (Leaves(p, "create_check") /\ SubmitsValidUrl(p)
               /\ ~retrieve_is_ok(store, loc[p].url))
            => IF loc[p].content.n = 0 \/ loc[p].content.n > 200000
               THEN /\ ret' = Result(p, "create", "InvalidContent")
                    /\ store' = store
               ELSE pc'[p] = "create_stamp"
         /\ Leaves(p, "create_stamp") => pc'[p] = "create_insert"
         /\ Leaves(p, "create_insert")
            => /\ ret'.status = "Ok"
               /\ \E i \in 1..Len(store') : /\ store'[i].url = loc[p].url
                                            /\ store'[i].content = loc[p].content
         /\ \A i \in 1..Len(store') :
              store'[i].content.n >= 1 /\ store'[i].content.n <= 200000]_vars

C12_Witness ==
    /\ ret.op = "create"
    /\ ret.status = "InvalidContent"
    /\ \E i \in 1..Len(store) : store[i].content.n = 200000

C15_LongPasswordIsRejected ==
    [][\A p \in Procs :
         /\ (Leaves(p, "create_check") /\ SubmitsValidUrl(p)
               /\ ~retrieve_is_ok(store, loc[p].url)
               /\ loc[p].content.n >= 1 /\ loc[p].content.n <= 200000
               /\ Len(loc[p].password) > 250)
            => /\ ret' = Result(p, "create", "InvalidPassword")
               /\ store' = store
         /\ (Leaves(p, "update_retrieve") /\ retrieve_is_ok(store, loc[p].url)
               /\ ~PresentsWrongPassword(p)
               /\ Len(loc[p].new_password) > 250)
            => /\ ret' = Result(p, "update", "InvalidPassword")
               /\ store' = store]_vars

\* C16: whenever a storage read or write of a create, retrieve, update or
\* delete faults, the operation returns the storage error (PasteError::Other
\* carrying the cause): not NotFound, not success, not any other result
\* reached by taking the faulted read for "url absent" and going on.
C16_StorageFaultIsReported ==
    ret.faulted => ret.status = "Other"

\* C17: once a delete of a url has returned success, a retrieve of the url
\* returns NotFound in every later state until a later create of that url
\* succeeds, whatever creates and updates run concurrently on the url: the
\* url is absent right after the delete returns, and a url that is absent
\* becomes present only by the insert of a create that returns success.
C17_DeletedStaysAbsent ==
    [][/\ \A p \in Procs :
            (Leaves(p, "delete_remove") /\ ret'.status = "Ok")
            => PasteReturn(p, store', loc[p].url).status = "NotFound"
       /\ \A i \in 1..Len(store') :
            ~retrieve_is_ok(store, store'[i].url)
            => \E p \in Procs : /\ Leaves(p, "create_insert")
                                /\ loc[p].url = store'[i].url
                                /\ ret'.status = "Ok"]_vars

\* C18: when two updates with valid credentials race on one existing url,
\* each returns success and the write of each leaves the record with exactly
\* its own content, password_hash and date_edited, so that the record after
\* both is that of the write applied last and never a mixture of the two;
\* no other row is touched.
C18_LastUpdateWins ==
    [][\A p \in Procs :
         (Leaves(p, "update_write") /\ retrieve_is_ok(store, loc[p].url))
         => LET k == FirstMatch(store, loc[p].url)
            IN  /\ ret'.status = "Ok"
                /\ Len(store') = Len(store)
                /\ store'[k].content = loc[p].content
                /\ store'[k].password_hash =
                     hash_string(IF loc[p].new_password = EmptyString
                                 THEN loc[p].password ELSE loc[p].new_password)
                /\ store'[k].date_edited = loc[p].date_edited
                /\ \A i \in 1..Len(store) : i # k => store'[i] = store[i]]_vars

\* one of two racing updates has written and returned, the other is about to
\* write other values over it
C18_Witness ==
    /\ ret.op = "update"
    /\ ret.status = "Ok"
    /\ retrieve_is_ok(store, ret.url)
    /\ \E q \in Procs :
         /\ q # ret.proc
         /\ pc[q] = "update_write"
         /\ loc[q].url = ret.url
         /\ hash_string(IF loc[q].new_password = EmptyString
                        THEN loc[q].password ELSE loc[q].new_password)
              # retrieve_paste(store, ret.url).password_hash
         /\ loc[q].date_edited # retrieve_paste(store, ret.url).date_edited

\* C19: a delete or update returns success only if the password it presented
\* matches the password_hash stored for its url at the moment its storage
\* mutation is applied; after an update that changes the password has
\* written, no delete or update authenticated with the old password takes
\* effect, whatever the interleaving.
C19_AuthorizedAtTheMutation ==
    [][\A p \in Procs :
         ((Leaves(p, "update_write") \/ Leaves(p, "delete_remove"))
            /\ ret'.status = "Ok")
         => /\ retrieve_is_ok(store, loc[p].url)
            /\ hash_string(loc[p].password)
                 = retrieve_paste(store, loc[p].url).password_hash]_vars

\* C20: a create with an empty url never fails with AlreadyExists or
\* InvalidUrl: the generated url is within the rules for urls, and the url
\* the call assigns (inserts) was absent from storage, whatever other creates
\* run concurrently.
C20_GeneratedUrlIsAccepted ==
    [][\A p \in Procs :
         (loc[p].generated /\ pc[p] # "idle")
         => /\ pc'[p] = "idle" => ret'.status \notin {"AlreadyExists", "InvalidUrl"}
            /\ Leaves(p, "create_insert")
               => /\ SubmitsValidUrl(p)
                  /\ ~retrieve_is_ok(store, loc[p].url)]_vars

\* some token of the generator's range is not a stored url
SomeTokenIsFree == \E r \in RandValues : ~retrieve_is_ok(store, RandomToken(r))

\* C21: with a fair generator, a create with an empty url returns in the end
\* whenever some token of the generator's range is not a stored url; a turn
\* of the retry loop writes nothing to storage, and the loop ends only on a
\* candidate the lookup found absent.
C21_GenerationLoopEnds ==
    /\ \A p \in {1} :
         (loc[p].generated /\ pc[p] = "create_gen" /\ SomeTokenIsFree)
           ~> (pc[p] = "idle" /\ ret.proc = p /\ ret.op = "create")
    /\ [][\A p \in Procs :
            pc[p] = "create_gen"
            => /\ store' = store
               /\ pc'[p] \in {"create_gen", "create_check"}
               /\ pc'[p] = "create_check"
                  => ~retrieve_is_ok(store, loc'[p].url)]_vars

\* the loop has ended on the free token while the other token is stored
C21_Witness ==
    /\ pc[1] = "create_check"
    /\ loc[1].generated
    /\ store # <<>>
    /\ retrieve_is_ok(store, RandomToken(0))
    /\ loc[1].url = RandomToken(1)

C24_AuthenticationBeforeValidation ==
    [][\A p \in Procs :
         Leaves(p, "update_retrieve")
         => /\ PresentsWrongPassword(p)
               => ret' = Result(p, "update", "PasswordIncorrect")
            /\ ret'.status \in {"InvalidContent", "InvalidPassword"}
               => /\ retrieve_is_ok(store, loc[p].url)
                  /\ hash_string(loc[p].password)
                       = retrieve_paste(store, loc[p].url).password_hash]_vars

\* an update with a wrong password, an over-long content and an over-long new
\* password is at its retrieve
C24_Witness ==
    /\ pc[1] = "update_retrieve"
    /\ PresentsWrongPassword(1)
    /\ loc[1].content.n > 200000
    /\ Len(loc[1].new_password) > 250

====
